---- MODULE Spec2Model ----
(***************************************************************************)
(* Model of api.py: the POST /analyser handler analyser_csv.                *)
(*                                                                         *)
(* The handler is an async function without a single await: a request runs *)
(* to completion on the event loop before the next one starts, so one      *)
(* request is one atomic step.  The only state that outlives a request is  *)
(* pyplot's registry of open figures.                                      *)
(*                                                                         *)
(* Optional values (None, NaN, NaT) are sequences of length 0; a present   *)
(* value x is <<x>>.  Text cells are sequences of one-character strings.   *)
(* A date cell <<y, m, d>> stands for the text "y-m-d".  Author names are  *)
(* numbered in their lexicographic order.                                  *)
(***************************************************************************)
EXTENDS Integers, Sequences, FiniteSets

VARIABLES
    request,    \* the form fields of the request handled last
    result,     \* the locals of analyser_csv when that request ended
    open_figs,  \* pyplot's registry: the numbers of the figures still open
    memo        \* history: an earlier request and what it returned

vars == <<request, result, open_figs, memo>>

\* ------------------------------------------------------------------ bounds

MaxRows == 2
NWide == 11
MaxOpenFigs == 2

\* --------------------------------------------------------------- constants

TopN == 10

desired_order ==
    << <<"s","t","r","o","n","g","l","y"," ","p","o","s","i","t","i","v","e">>,
       <<"p","o","s","i","t","i","v","e">>,
       <<"n","e","u","t","r","a","l">>,
       <<"n","e","g","a","t","i","v","e">>,
       <<"s","t","r","o","n","g","l","y"," ","n","e","g","a","t","i","v","e">> >>

positive == <<"p","o","s","i","t","i","v","e">>
negative == <<"n","e","g","a","t","i","v","e">>
neutral == <<"n","e","u","t","r","a","l">>

None == <<>>
NaN == <<>>
NaT == <<>>

\* ------------------------------------------------------------ small helpers

Range(s) == {s[i] : i \in 1..Len(s)}

SetMin(S) == CHOOSE x \in S : \A y \in S : x <= y
SetMax(S) == CHOOSE x \in S : \A y \in S : x >= y

RECURSIVE SortedSeq(_)
SortedSeq(S) ==
    IF S = {} THEN <<>>
    ELSE LET m == SetMin(S) IN <<m>> \o SortedSeq(S \ {m})

RECURSIVE SumSeq(_)
SumSeq(s) == IF s = <<>> THEN 0 ELSE Head(s) + SumSeq(Tail(s))

Reverse(s) == [i \in 1..Len(s) |-> s[Len(s) + 1 - i]]

\* ------------------------------------------------------------------ ingest

\* str.lower on the characters the inputs use
Lower(c) ==
    CASE c = "P" -> "p" [] c = "O" -> "o" [] c = "S" -> "s" [] c = "I" -> "i"
      [] c = "T" -> "t" [] c = "V" -> "v" [] c = "E" -> "e" [] c = "N" -> "n"
      [] c = "U" -> "u" [] c = "R" -> "r" [] c = "A" -> "a" [] c = "L" -> "l"
      [] c = "G" -> "g" [] c = "Y" -> "y" [] c = "M" -> "m" [] c = "X" -> "x"
      [] c = "D" -> "d"
      [] OTHER -> c

IsSpace(c) == c = " "

RECURSIVE LStrip(_)
LStrip(s) == IF s # <<>> /\ IsSpace(Head(s)) THEN LStrip(Tail(s)) ELSE s

RECURSIVE RStrip(_)
RStrip(s) ==
    IF s # <<>> /\ IsSpace(s[Len(s)]) THEN RStrip(SubSeq(s, 1, Len(s) - 1)) ELSE s

Strip(s) == RStrip(LStrip(s))

\* astype(str): a missing cell becomes the text "nan"
AsStr(cell) == IF cell = NaN THEN <<"n","a","n">> ELSE cell

\* .astype(str).str.strip().str.lower()
Normalize(cell) == LET t == Strip(AsStr(cell)) IN [i \in 1..Len(t) |-> Lower(t[i])]

IsLeap(y) == (y % 4 = 0 /\ y % 100 # 0) \/ y % 400 = 0

DaysInMonth(y, m) ==
    IF m = 2 THEN (IF IsLeap(y) THEN 29 ELSE 28)
    ELSE IF m \in {4, 6, 9, 11} THEN 30 ELSE 31

\* pd.to_datetime(errors='coerce'): a calendar date parses, anything else is NaT
ToDatetime(cell) ==
    IF Len(cell) = 3 /\ cell[2] \in 1..12 /\ cell[3] >= 1
       /\ cell[3] <= DaysInMonth(cell[1], cell[2])
    THEN cell ELSE NaT

\* .dt.year: NaN for NaT
YearOf(ts) == IF ts = NaT THEN NaN ELSE <<ts[1]>>

IngestRow(row) ==
    LET ts == ToDatetime(row.articleCreatedDate)
    IN [articleCreatedDate |-> ts,
        authorName |-> row.authorName,
        sentimentHumanReadable |-> Normalize(row.sentimentHumanReadable),
        Year |-> YearOf(ts)]

Ingest(file) == [i \in 1..Len(file) |-> IngestRow(file[i])]

\* Series.min() / Series.max(): NaN is skipped; NaN when nothing is left
YearsOf(df) == {df[i].Year[1] : i \in {j \in 1..Len(df) : df[j].Year # NaN}}
YearMin(df) == IF YearsOf(df) = {} THEN NaN ELSE <<SetMin(YearsOf(df))>>
YearMax(df) == IF YearsOf(df) = {} THEN NaN ELSE <<SetMax(YearsOf(df))>>

\* dropna().unique().tolist(): distinct present names in order of appearance
RECURSIVE UniqueAuthors(_)
UniqueAuthors(df) ==
    IF df = <<>> THEN <<>>
    ELSE LET init == UniqueAuthors(SubSeq(df, 1, Len(df) - 1))
             a == df[Len(df)].authorName
         IN IF a = NaN \/ a[1] \in Range(init) THEN init ELSE Append(init, a[1])

\* ------------------------------------------------------------------ filter

\* a comparison against NaN is False
YearInRange(row, min_year, max_year) ==
    row.Year # NaN /\ row.Year[1] >= min_year /\ row.Year[1] <= max_year

\* Series.isin: a missing name is in no list of strings
IsIn(row, selected_authors) ==
    row.authorName # NaN /\ row.authorName[1] \in Range(selected_authors)

\* the upper bound taken as exclusive
KeepBelowMax(row, min_year, max_year, selected_authors) ==
    /\ row.Year # NaN /\ row.Year[1] >= min_year /\ row.Year[1] < max_year
    /\ IsIn(row, selected_authors)

Keep(row, min_year, max_year, selected_authors) ==
    YearInRange(row, min_year, max_year) /\ IsIn(row, selected_authors)

Filter(df, min_year, max_year, selected_authors) ==
    LET P(row) == Keep(row, min_year, max_year, selected_authors)
    IN SelectSeq(df, P)

\* -------------------------------------------------------------------- KPIs

CountLabel(df, label) ==
    Cardinality({i \in 1..Len(df) : df[i].sentimentHumanReadable = label})

\* 'negative' matched as a substring (str.contains) instead of by equality
KpisContains(df_filtered) ==
    [total_mentions |-> Len(df_filtered),
     positive |-> CountLabel(df_filtered, positive),
     negative |-> CountLabel(df_filtered, negative)
                    + CountLabel(df_filtered, desired_order[5]),
     neutral |-> CountLabel(df_filtered, neutral)]

Kpis(df_filtered) ==
    [total_mentions |-> Len(df_filtered),
     positive |-> CountLabel(df_filtered, positive),
     negative |-> CountLabel(df_filtered, negative),
     neutral |-> CountLabel(df_filtered, neutral)]

\* ------------------------------------------- graph 1: mentions over time

\* days since 1970-01-01 of a calendar date
DaysFromCivil(y, m, d) ==
    LET yy == IF m <= 2 THEN y - 1 ELSE y
        era == yy \div 400
        yoe == yy - era * 400
        mp == (m + 9) % 12
        doy == (153 * mp + 2) \div 5 + d - 1
        doe == yoe * 365 + yoe \div 4 - yoe \div 100 + doy
    IN era * 146097 + doe - 719468

\* an unrecognised granularity bucketed by year
PeriodElseYear(ts, granularity) ==
    IF ts = NaT THEN NaN
    ELSE IF granularity = "Par jour" THEN <<DaysFromCivil(ts[1], ts[2], ts[3])>>
    ELSE IF granularity = "Par semaine"
         THEN <<(DaysFromCivil(ts[1], ts[2], ts[3]) + 3) \div 7>>
    ELSE IF granularity = "Par mois" THEN <<ts[1] * 12 + ts[2] - 1>>
    ELSE <<ts[1]>>

\* the bucket of a timestamp, as a number that orders the buckets in time:
\* .dt.date, and .dt.to_period of 'W' (Monday to Sunday), 'M' and 'Y';
\* any other granularity string is bucketed by month
Period(ts, granularity) ==
    IF ts = NaT THEN NaN
    ELSE IF granularity = "Par jour" THEN <<DaysFromCivil(ts[1], ts[2], ts[3])>>
    ELSE IF granularity = "Par semaine"
         THEN <<(DaysFromCivil(ts[1], ts[2], ts[3]) + 3) \div 7>>
    ELSE IF granularity = "Par mois" THEN <<ts[1] * 12 + ts[2] - 1>>
    ELSE IF granularity = "Par annee" THEN <<ts[1]>>
    ELSE <<ts[1] * 12 + ts[2] - 1>>

\* df_filtered['Period'].value_counts().sort_index(): missing periods are
\* not counted, one entry per period present, ascending
MentionsOverTime(df_filtered, granularity) ==
    LET per == [i \in 1..Len(df_filtered) |->
                    Period(df_filtered[i].articleCreatedDate, granularity)]
        present == {per[i][1] : i \in {j \in 1..Len(per) : per[j] # NaN}}
        idx == SortedSeq(present)
    IN [k \in 1..Len(idx) |->
            [period |-> idx[k],
             count |-> Cardinality({i \in 1..Len(per) : per[i] = <<idx[k]>>})]]

\* ------------------------------------- graph 2: sentiment distribution

\* the labels without records left out instead of counted as 0
SentimentCountsPresent(df_filtered) ==
    LET P(s) == CountLabel(df_filtered, s) > 0
        present == SelectSeq(desired_order, P)
    IN [s \in 1..Len(present) |-> CountLabel(df_filtered, present[s])]

\* [sentiment_counts_raw.get(s, 0) for s in desired_order]
SentimentCounts(df_filtered) ==
    [s \in 1..Len(desired_order) |-> CountLabel(df_filtered, desired_order[s])]

\* -------------------------------------------- graph 3: authors by sentiment

\* groupby keys: missing names form no group; groups come sorted by name
GroupAuthors(df_filtered) ==
    SortedSeq({df_filtered[i].authorName[1] :
                 i \in {j \in 1..Len(df_filtered) : df_filtered[j].authorName # NaN}})

\* the columns after unstack: every label some group has
Columns(df_filtered) ==
    {df_filtered[i].sentimentHumanReadable :
       i \in {j \in 1..Len(df_filtered) : df_filtered[j].authorName # NaN}}

Cell(df_filtered, a, label) ==
    Cardinality({i \in 1..Len(df_filtered) :
                   /\ df_filtered[i].authorName = <<a>>
                   /\ df_filtered[i].sentimentHumanReadable = label})

RECURSIVE SumCells(_, _, _)
SumCells(df_filtered, a, cols) ==
    IF cols = {} THEN 0
    ELSE LET c == CHOOSE x \in cols : TRUE
         IN Cell(df_filtered, a, c) + SumCells(df_filtered, a, cols \ {c})

\* author_sentiment['Total'] = author_sentiment.sum(axis=1)
RowTotals(df_filtered) ==
    LET g == GroupAuthors(df_filtered)
        cols == Columns(df_filtered)
    IN [i \in 1..Len(g) |->
          [authorName |-> g[i], Total |-> SumCells(df_filtered, g[i], cols)]]

\* sort_values(by='Total', ascending=False): pandas reverses, sorts ascending
\* and reverses again, so that on the few rows of a request (numpy sorts
\* short arrays by insertion) equal totals keep their order
RECURSIVE InsertDesc(_, _)
InsertDesc(sorted, r) ==
    IF sorted = <<>> THEN <<r>>
    ELSE IF Head(sorted).Total >= r.Total
         THEN <<Head(sorted)>> \o InsertDesc(Tail(sorted), r)
         ELSE <<r>> \o sorted

\* ascending=True
RECURSIVE SortAsc(_)
SortAsc(rows) ==
    IF rows = <<>> THEN <<>>
    ELSE LET rest == SortAsc(SubSeq(rows, 1, Len(rows) - 1))
             r == rows[Len(rows)]
             P(x) == x.Total <= r.Total
             Q(x) == x.Total > r.Total
         IN SelectSeq(rest, P) \o <<r>> \o SelectSeq(rest, Q)

RECURSIVE SortDesc(_)
SortDesc(rows) ==
    IF rows = <<>> THEN <<>>
    ELSE InsertDesc(SortDesc(SubSeq(rows, 1, Len(rows) - 1)), rows[Len(rows)])

HeadN(rows, n) == SubSeq(rows, 1, IF Len(rows) < n THEN Len(rows) ELSE n)

\* [s for s in desired_order if s in top_authors_sentiment.columns]
ExistingSentiments(df_filtered) ==
    LET cols == Columns(df_filtered)
        P(s) == s \in cols
    IN SelectSeq(desired_order, P)

\* the matrix handed to the stacked horizontal bar chart, first row lowest
TopAuthorsSentiment(df_filtered) ==
    LET top == HeadN(SortDesc(RowTotals(df_filtered)), TopN)
        existing == ExistingSentiments(df_filtered)
        rows == [i \in 1..Len(top) |->
                   [authorName |-> top[i].authorName,
                    counts |-> [j \in 1..Len(existing) |->
                                  Cell(df_filtered, top[i].authorName, existing[j])]]]
    IN Reverse(rows)

\* ---------------------------------------------------------------- figures

\* plt.subplots(): pyplot numbers a new figure one past the highest open one
NewFig(figs) == IF figs = {} THEN 1 ELSE SetMax(figs) + 1
Subplots(figs) == figs \cup {NewFig(figs)}
\* plt.close(fig)
Close(figs, fig) == figs \ {fig}

\* figures left open by earlier requests make the plot fail
PlotRaisesWhenCrowded(existing_sentiments) ==
    existing_sentiments = <<>> \/ open_figs # {}

\* DataFrame.plot raises TypeError("no numeric data to plot") on a frame
\* without columns
PlotRaises(existing_sentiments) == existing_sentiments = <<>>

\* ---------------------------------------------------------------- handler

NoKpis == [total_mentions |-> 0, positive |-> 0, negative |-> 0, neutral |-> 0]

\* the locals of a request that raised before its return statement
Raised(where, what, figs) ==
    [status |-> "error", at |-> where, error |-> what,
     min_year |-> None, max_year |-> None, selected_authors |-> None,
     df_filtered |-> <<>>, kpis |-> NoKpis,
     mentions_over_time |-> <<>>, sentiment_counts |-> <<>>,
     existing_sentiments |-> <<>>, top_authors_sentiment |-> <<>>,
     response |-> None, figs |-> figs]

\* pd.read_csv: the file is given as the table it parses to, rows of text
\* cells in which an empty cell is NaN
ReadCsv(file) == file

\* the body of analyser_csv from line 38 on, started with `figs` open
Handle(file, selected_authors, min_year, max_year, granularity, figs) ==
    LET df == Ingest(ReadCsv(file))
    IN IF (min_year = None /\ YearMin(df) = NaN) \/ (max_year = None /\ YearMax(df) = NaN)
       THEN Raised("defaults", "ValueError", figs)
       ELSE
       LET lo == IF min_year = None THEN YearMin(df)[1] ELSE min_year[1]
           hi == IF max_year = None THEN YearMax(df)[1] ELSE max_year[1]
           authors == IF selected_authors = None THEN UniqueAuthors(df)
                      ELSE selected_authors[1]
           df_filtered == Filter(df, lo, hi, authors)
           kpis == Kpis(df_filtered)
           mentions == MentionsOverTime(df_filtered, granularity)
           fig1 == NewFig(figs)
           figs1 == Close(Subplots(figs), fig1)
           counts == SentimentCounts(df_filtered)
           fig2 == NewFig(figs1)
           figs2 == Close(Subplots(figs1), fig2)
           existing == ExistingSentiments(df_filtered)
           top == TopAuthorsSentiment(df_filtered)
           fig3 == NewFig(figs2)
           figs3 == Subplots(figs2)
           locals == [status |-> "ok", at |-> "return", error |-> "",
                      min_year |-> <<lo>>, max_year |-> <<hi>>,
                      selected_authors |-> <<authors>>,
                      df_filtered |-> df_filtered, kpis |-> kpis,
                      mentions_over_time |-> mentions, sentiment_counts |-> counts,
                      existing_sentiments |-> existing, top_authors_sentiment |-> top,
                      response |-> <<[kpis |-> kpis,
                                      html_report |-> [min_year |-> lo, max_year |-> hi,
                                                       selected_authors |-> authors,
                                                       kpis |-> kpis]]>>,
                      figs |-> Close(figs3, fig3)]
       IN IF PlotRaises(existing)
          THEN [locals EXCEPT !.status = "error", !.at = "graph3",
                              !.error = "TypeError", !.response = None,
                              !.figs = figs3]
          ELSE locals

\* ----------------------------------------------------------------- inputs

Positive_ == <<"P","o","s","i","t","i","v","e"," ">>
NEUTRAL_ == <<" ","N","E","U","T","R","A","L">>
Neutral_ == <<"N","e","u","t","r","a","l">>
Mixed_ == <<"m","i","x","e","d">>
StronglyNegative_ ==
    <<"S","t","r","o","n","g","l","y"," ","N","e","g","a","t","i","v","e">>
StronglyPositive_ ==
    <<"s","t","r","o","n","g","l","y"," ","p","o","s","i","t","i","v","e">>

Row(date, author, sentiment) ==
    [articleCreatedDate |-> date, authorName |-> author,
     sentimentHumanReadable |-> sentiment]

\* the last of the NWide authors; the first is author 1
Hi == NWide

\* the rows a small file is made of: the two rows of the documented example,
\* a label outside the vocabulary, a date that is no calendar date, a label
\* to normalise, and a row without author and label
TailRows ==
    { Row(<<2024, 1, 5>>, <<1>>, Positive_),
      Row(<<2024, 2, 10>>, <<Hi>>, negative),
      Row(<<2023, 12, 31>>, <<Hi>>, Mixed_),
      Row(<<2024, 2, 30>>, <<1>>, NEUTRAL_),
      Row(<<2024, 1, 1>>, <<1>>, StronglyNegative_),
      Row(<<2024, 2, 10>>, NaN, NaN) }

Tails == UNION {[1..n -> TailRows] : n \in 0..MaxRows}

WideDates == << <<2024, 1, 5>>, <<2024, 1, 1>>, <<2023, 12, 31>>, <<2024, 2, 10>> >>
WideLabels == <<positive, Neutral_, Mixed_, negative, StronglyPositive_>>

\* one row for each of NWide authors
WidePrefix ==
    [i \in 1..NWide |->
        Row(WideDates[((i - 1) % Len(WideDates)) + 1], <<i>>,
            WideLabels[((i - 1) % Len(WideLabels)) + 1])]

Files == Tails \cup {WidePrefix \o t : t \in Tails}

MinYearParams == {None, <<2023>>, <<2024>>}
MaxYearParams == {None, <<2023>>, <<2024>>}
AuthorParams == {None, << <<Hi>> >>}
Granularities == {"Par jour", "Par semaine", "Par mois", "Par annee", "Par heure"}

\* ------------------------------------------------------------ the machine

NoRequest ==
    [file |-> <<>>, selected_authors |-> None, min_year |-> None,
     max_year |-> None, granularity |-> ""]

NoResult ==
    [status |-> "none", at |-> "", error |-> "",
     min_year |-> None, max_year |-> None, selected_authors |-> None,
     df_filtered |-> <<>>, kpis |-> NoKpis,
     mentions_over_time |-> <<>>, sentiment_counts |-> <<>>,
     existing_sentiments |-> <<>>, top_authors_sentiment |-> <<>>,
     response |-> None, figs |-> {}]

Init ==
    /\ request = NoRequest
    /\ result = NoResult
    /\ open_figs = {}
    /\ memo = <<>>

\* the handler run to its end on one request; the response (or the error) is
\* then in flight
analyser_csv(file, selected_authors, min_year, max_year, granularity) ==
    /\ request' = [file |-> file, selected_authors |-> selected_authors,
                   min_year |-> min_year, max_year |-> max_year,
                   granularity |-> granularity]
    /\ result' = Handle(file, selected_authors, min_year, max_year, granularity,
                        open_figs)
    /\ open_figs' = result'.figs
    /\ Cardinality(open_figs') <= MaxOpenFigs

\* the response is sent and the locals of the request are gone; what stays
\* is pyplot's registry
Respond ==
    /\ result.status # "none"
    /\ request' = NoRequest
    /\ result' = NoResult
    /\ UNCHANGED open_figs

\* between two requests the server takes the next POST /analyser
Idle == result.status = "none"

Request ==
    /\ Idle
    /\ \E file \in Files, selected_authors \in AuthorParams,
         min_year \in MinYearParams, max_year \in MaxYearParams,
         granularity \in Granularities :
          /\ analyser_csv(file, selected_authors, min_year, max_year, granularity)
          /\ UNCHANGED memo

Next ==
    \/ Request
    \/ Respond /\ UNCHANGED memo

Spec == Init /\ [][Next]_vars

\* ------------------------------------------------- replaying requests

\* what a request hands back: the response and the series behind the charts
Output(r) ==
    [response |-> r.response,
     mentions_over_time |-> r.mentions_over_time,
     sentiment_counts |-> r.sentiment_counts,
     top_authors_sentiment |-> r.top_authors_sentiment]

ReplayFiles ==
    { <<>>,
      << Row(<<2024, 1, 5>>, <<1>>, Positive_) >>,
      << Row(<<2024, 1, 5>>, <<1>>, Positive_), Row(<<2024, 2, 10>>, <<Hi>>, negative) >>,
      << Row(<<2023, 12, 31>>, <<Hi>>, Mixed_) >>,
      << Row(<<2024, 2, 30>>, <<1>>, NEUTRAL_) >>,
      WidePrefix }

ReplayRequest ==
    /\ Idle
    /\ \E file \in ReplayFiles, selected_authors \in AuthorParams,
         min_year \in MinYearParams, granularity \in {"Par mois", "Par semaine"} :
          /\ analyser_csv(file, selected_authors, min_year, None, granularity)
          /\ UNCHANGED memo

\* the history keeps the request being answered, what it got and the
\* figures open at that time
Remember ==
    memo' = <<[request |-> request, out |-> Output(result), figs |-> open_figs]>>

ReplayNext ==
    \/ ReplayRequest
    \/ Respond /\ UNCHANGED memo
    \/ Respond /\ Remember

SpecReplay == Init /\ [][ReplayNext]_vars

\* ------------------------------------------------------------------ claims

Returned == result.status = "ok"
Charted == result.at \in {"graph3", "return"}

ParsedYear(row) == YearOf(ToDatetime(row.articleCreatedDate))

AllOmitted ==
    /\ request.min_year = None
    /\ request.max_year = None
    /\ request.selected_authors = None

AllExplicit ==
    /\ request.min_year # None
    /\ request.max_year # None
    /\ request.selected_authors # None

\* the bounds and the allow-list in force: the ones given, else the defaults
LowYear == IF request.min_year = None THEN result.min_year[1] ELSE request.min_year[1]
HighYear == IF request.max_year = None THEN result.max_year[1] ELSE request.max_year[1]
AllowList ==
    IF request.selected_authors = None THEN Range(result.selected_authors[1])
    ELSE Range(request.selected_authors[1])

RowMatches(row, lo, hi, allowed) ==
    /\ ParsedYear(row) # NaN
    /\ ParsedYear(row)[1] >= lo
    /\ ParsedYear(row)[1] <= hi
    /\ row.authorName # NaN
    /\ row.authorName[1] \in allowed

MatchingRows(lo, hi, allowed) ==
    {i \in 1..Len(request.file) : RowMatches(request.file[i], lo, hi, allowed)}

ResponseKpis == result.response[1].kpis

\* C1: the total_mentions a request returns is the number of rows of its CSV
\* whose parsed year is within [min_year, max_year], both inclusive, and whose
\* author is in the allow-list; a row without a parsed year is never counted,
\* and with min_year = max_year = Y only rows of year Y are.
C1_TotalIsFilteredRowCount ==
    Returned =>
        /\ ResponseKpis.total_mentions =
               Cardinality(MatchingRows(LowYear, HighYear, AllowList))
        /\ (request.min_year # None /\ request.min_year = request.max_year) =>
               ResponseKpis.total_mentions =
                   Cardinality({i \in 1..Len(request.file) :
                       /\ ParsedYear(request.file[i]) = request.min_year
                       /\ request.file[i].authorName # NaN
                       /\ request.file[i].authorName[1] \in AllowList})

C1_Witness ==
    /\ Returned
    /\ request.min_year = <<2023>>
    /\ request.max_year = <<2023>>
    /\ request.selected_authors # None
    /\ ResponseKpis.total_mentions >= 1
    /\ \E i \in 1..Len(request.file) : ParsedYear(request.file[i]) = NaN
    /\ \E i \in 1..Len(request.file) : ParsedYear(request.file[i]) = <<2024>>
    /\ \E i \in 1..Len(request.file) :
          /\ ParsedYear(request.file[i]) = <<2023>>
          /\ request.file[i].authorName # NaN
          /\ request.file[i].authorName[1] \notin AllowList

ThreeLabels == {positive, negative, neutral}

KpiSum == ResponseKpis.positive + ResponseKpis.negative + ResponseKpis.neutral

AllInThree ==
    \A i \in 1..Len(result.df_filtered) :
        result.df_filtered[i].sentimentHumanReadable \in ThreeLabels

\* C2: in every response positive + negative + neutral <= total_mentions,
\* with equality exactly when every filtered record's normalised label is one
\* of 'positive', 'negative', 'neutral'.
C2_SentimentSumBound ==
    Returned =>
        /\ KpiSum <= ResponseKpis.total_mentions
        /\ (KpiSum = ResponseKpis.total_mentions) <=> AllInThree

C2_Witness ==
    /\ Returned
    /\ ResponseKpis.total_mentions >= 2
    /\ KpiSum < ResponseKpis.total_mentions
    /\ KpiSum >= 1
    /\ \E i \in 1..Len(result.df_filtered) :
          result.df_filtered[i].sentimentHumanReadable = desired_order[5]

C2_WitnessEquality ==
    /\ Returned
    /\ ResponseKpis.total_mentions >= 2
    /\ KpiSum = ResponseKpis.total_mentions

ZeroKpis(k) ==
    /\ k.total_mentions = 0
    /\ k.positive = 0
    /\ k.negative = 0
    /\ k.neutral = 0

\* C3: a request whose CSV has no data rows and whose filter fields are all
\* omitted ends without error and returns four KPIs equal to 0.
C3_EmptyCsvReturnsZeros ==
    (result.status # "none" /\ request.file = <<>> /\ AllOmitted) =>
        (Returned /\ ZeroKpis(ResponseKpis))

\* C4: with min_year, max_year and selected_authors all omitted the filter
\* keeps every row, a row with an unparseable timestamp too: total_mentions
\* is the number of rows of the CSV.
C4_DefaultsKeepEveryRow ==
    (Returned /\ AllOmitted) => ResponseKpis.total_mentions = Len(request.file)

\* the number of filtered records of an author, whatever their label
AuthorTotal(a) ==
    Cardinality({i \in 1..Len(result.df_filtered) :
                    result.df_filtered[i].authorName = <<a>>})

FilteredAuthors ==
    {result.df_filtered[i].authorName[1] : i \in 1..Len(result.df_filtered)}

ChartAuthors ==
    {result.top_authors_sentiment[i].authorName :
        i \in 1..Len(result.top_authors_sentiment)}

\* C5: the matrix of the stacked-bar chart has at most 10 author rows; they
\* are authors with the greatest totals, a total counting the records of
\* every label, also those outside the vocabulary; the rows are in ascending
\* order of total (the highest last).
C5_TopAuthorsAscending ==
    Charted =>
        LET top == result.top_authors_sentiment
        IN /\ Len(top) <= 10
           /\ Len(top) = IF Cardinality(FilteredAuthors) < 10
                         THEN Cardinality(FilteredAuthors) ELSE 10
           /\ Cardinality(ChartAuthors) = Len(top)
           /\ ChartAuthors \subseteq FilteredAuthors
           /\ \A a \in ChartAuthors : \A b \in FilteredAuthors \ ChartAuthors :
                 AuthorTotal(a) >= AuthorTotal(b)
           /\ \A i \in 1..Len(top) : \A j \in 1..Len(top) :
                 i < j => AuthorTotal(top[i].authorName) <= AuthorTotal(top[j].authorName)

\* more authors than rows, and the last row got there by a label outside the
\* vocabulary
C5_Witness ==
    /\ Returned
    /\ Cardinality(FilteredAuthors) > 10
    /\ Len(result.top_authors_sentiment) = 10
    /\ LET top == result.top_authors_sentiment
       IN /\ AuthorTotal(top[10].authorName) > AuthorTotal(top[1].authorName)
          /\ SumSeq(top[10].counts) < AuthorTotal(top[10].authorName)
          /\ \E b \in FilteredAuthors \ ChartAuthors :
                AuthorTotal(b) = SumSeq(top[10].counts)

Vocabulary ==
    << Normalize(StronglyPositive_), positive, neutral, negative,
       Normalize(StronglyNegative_) >>

LabelCount(label) ==
    Cardinality({i \in 1..Len(result.df_filtered) :
                    result.df_filtered[i].sentimentHumanReadable = label})

\* C6: the series of the sentiment chart has exactly 5 entries, in the order
\* strongly positive, positive, neutral, negative, strongly negative; each is
\* the number of filtered records with that label, 0 when there is none, and
\* a record with another label is counted in no entry.
C6_FiveSentimentBars ==
    Charted =>
        /\ Len(result.sentiment_counts) = 5
        /\ \A s \in 1..5 : result.sentiment_counts[s] = LabelCount(Vocabulary[s])
        /\ SumSeq(result.sentiment_counts) =
               Cardinality({i \in 1..Len(result.df_filtered) :
                   result.df_filtered[i].sentimentHumanReadable \in Range(Vocabulary)})

C6_Witness ==
    /\ Returned
    /\ \E s \in 1..5 : result.sentiment_counts[s] = 0
    /\ \E s \in 1..5 : result.sentiment_counts[s] >= 2
    /\ SumSeq(result.sentiment_counts) < Len(result.df_filtered)

\* C7: a request with the CSV and the parameters of an earlier one returns
\* the KPI values and chart series the earlier one returned, whatever was
\* handled before or between the two.
C7_SameRequestSameOutput ==
    (memo # <<>> /\ result.status # "none" /\ memo[1].request = request) =>
        memo[1].out = Output(result)

\* the second of the two runs with a figure open that the first did not see
C7_Witness ==
    /\ memo # <<>>
    /\ Returned
    /\ memo[1].request = request
    /\ memo[1].figs # open_figs

\* C8: a request on a CSV with rows whose explicit min_year, max_year and
\* selected_authors match no row is no error: it returns a response with the
\* four KPIs equal to 0 and an HTML report.
C8_NoMatchReturnsZeros ==
    (/\ result.status # "none"
     /\ request.file # <<>>
     /\ AllExplicit
     /\ MatchingRows(request.min_year[1], request.max_year[1],
                     Range(request.selected_authors[1])) = {})
    => (Returned /\ ZeroKpis(ResponseKpis))

\* C9: every figure a request acquires is released when the request ends,
\* whether it succeeds or raises: no figure of a finished request stays open.
C9_NoFigureLeftOpen == open_figs = {}

\* the claim's own bucketing: day, week (Monday to Sunday), month, year, and
\* month for any other granularity
SameBucket(t, u, granularity) ==
    IF granularity = "Par jour" THEN t = u
    ELSE IF granularity = "Par semaine"
         THEN LET dt == DaysFromCivil(t[1], t[2], t[3])
                  du == DaysFromCivil(u[1], u[2], u[3])
              IN dt - ((dt + 3) % 7) = du - ((du + 3) % 7)
    ELSE IF granularity = "Par annee" THEN t[1] = u[1]
    ELSE t[1] = u[1] /\ t[2] = u[2]

Earlier(t, u) == DaysFromCivil(t[1], t[2], t[3]) < DaysFromCivil(u[1], u[2], u[3])

FilteredDates ==
    [i \in 1..Len(result.df_filtered) |-> result.df_filtered[i].articleCreatedDate]

\* the filtered records an entry of the series stands for
Members(k) ==
    {i \in 1..Len(result.df_filtered) :
        Period(FilteredDates[i], request.granularity)
            = <<result.mentions_over_time[k].period>>}

\* C10: whatever the granularity, the mentions series has one entry for each
\* period bucket that occurs among the filtered records, in strictly
\* ascending order of period; an entry counts the filtered records of its
\* bucket (so at least 1), and the counts add up to total_mentions.
C10_SeriesMatchesBuckets ==
    Charted =>
        LET series == result.mentions_over_time
            n == Len(result.df_filtered)
        IN /\ \A k \in 1..Len(series) :
                 /\ series[k].count = Cardinality(Members(k))
                 /\ series[k].count >= 1
                 /\ \A i \in Members(k) : \A j \in 1..n :
                       (j \in Members(k)) <=>
                           SameBucket(FilteredDates[i], FilteredDates[j],
                                      request.granularity)
           /\ \A i \in 1..n : \E k \in 1..Len(series) : i \in Members(k)
           /\ \A k \in 1..Len(series) : \A l \in 1..Len(series) :
                 k < l =>
                    /\ series[k].period < series[l].period
                    /\ \A i \in Members(k) : \A j \in Members(l) :
                          Earlier(FilteredDates[i], FilteredDates[j])
           /\ SumSeq([k \in 1..Len(series) |-> series[k].count])
                  = result.kpis.total_mentions

C10_Witness ==
    /\ Returned
    /\ request.granularity = "Par heure"
    /\ Len(result.mentions_over_time) >= 3
    /\ \E k \in 1..Len(result.mentions_over_time) :
          result.mentions_over_time[k].count >= 2
    /\ \E i \in 1..Len(request.file) : ParsedYear(request.file[i]) = NaN

C10_WitnessWeek ==
    /\ Returned
    /\ request.granularity = "Par semaine"
    /\ \E k \in 1..Len(result.mentions_over_time) :
          \E i \in Members(k) : \E j \in Members(k) :
             FilteredDates[i] # FilteredDates[j]

====
